---- MODULE Spec2Model ----
\* DBCManager (tools/cabana/dbcmanager.cc): the registry of <SourceSet, DBCFile>
\* associations, the resolution of a source to its DBC file, the structural
\* edits and the signals they emit.
EXTENDS Integers, Sequences, FiniteSets, TLC

\* ------------------------------------------------------------------ bounds
\* the number of DBCFile objects a behaviour constructs
MaxObjs == 2

ObjIds == 1..MaxObjs
\* the positions of dbc_files the model fills
Slots == 1..2
\* the inputs the calls are made with
Sources == {0, 1}
Addresses == {0}
SigNames == {"x", "y"}
MsgNames == {"M"}
FileNames == {"a.dbc"}
Contents == {"BO_ 0 M: 8"}
MsgSizes == {8}

\* --------------------------------------------------- SourceSet (dbcmanager.h)
SourceSets == SUBSET Sources
SOURCE_ALL == {}
contains(ss, source) == source \in ss

\* ------------------------------------------------------ DBCFile (dbcfile.h)
NoMsg == [present |-> FALSE, name |-> "", size |-> 0, sigs |-> {}]
NoFile == [st |-> "free", filename |-> "", msgs |-> [a \in Addresses |-> NoMsg]]
DeletedFile == [st |-> "deleted", filename |-> "", msgs |-> [a \in Addresses |-> NoMsg]]

\* what parsing a file or a content string yields: message 0 with signal x
ParsedMsgs ==
  [a \in Addresses |->
     IF a = 0 THEN [present |-> TRUE, name |-> "M", size |-> 8, sigs |-> {"x"}]
     ELSE NoMsg]

\* DBCFile(dbc_file_name, parent)
DBCFile_fromFile(dbc_file_name) ==
  [st |-> "live", filename |-> dbc_file_name, msgs |-> ParsedMsgs]

\* DBCFile(name, content, parent): no file name is recorded
DBCFile_fromContent(name, content) ==
  [st |-> "live", filename |-> "", msgs |-> ParsedMsgs]

DBCFile_getSignal(d, address, sig_name) ==
  d.msgs[address].present /\ sig_name \in d.msgs[address].sigs

\* inserts under the message at address; declines (nullptr) when there is no
\* such message or the name is taken
DBCFile_addSignal_ok(d, address, sig) ==
  d.msgs[address].present /\ sig \notin d.msgs[address].sigs

DBCFile_addSignal(d, address, sig) ==
  IF ~DBCFile_addSignal_ok(d, address, sig) THEN d
  ELSE [d EXCEPT !.msgs[address].sigs = @ \cup {sig}]

\* in-place update of the signal named sig_name; declines when it is absent
\* or when the new name is taken by another signal
DBCFile_updateSignal_ok(d, address, sig_name, sig) ==
  /\ DBCFile_getSignal(d, address, sig_name)
  /\ (sig = sig_name \/ sig \notin d.msgs[address].sigs)

DBCFile_updateSignal(d, address, sig_name, sig) ==
  IF ~DBCFile_updateSignal_ok(d, address, sig_name, sig) THEN d
  ELSE [d EXCEPT !.msgs[address].sigs = (@ \ {sig_name}) \cup {sig}]

DBCFile_removeSignal(d, address, sig_name) ==
  IF ~DBCFile_getSignal(d, address, sig_name) THEN d
  ELSE [d EXCEPT !.msgs[address].sigs = @ \ {sig_name}]

\* creates the message or updates its name and size
DBCFile_updateMsg(d, address, name, size) ==
  LET m == d.msgs[address]
  IN [d EXCEPT !.msgs[address] =
        [present |-> TRUE, name |-> name, size |-> size, sigs |-> m.sigs]]

DBCFile_removeMsg_ok(d, address) == d.msgs[address].present

DBCFile_removeMsg(d, address) == [d EXCEPT !.msgs[address] = NoMsg]

\* ------------------------------------------------------------------- state
VARIABLES
  dbc_files,  \* DBCManager::dbc_files: sequence of <SourceSet, DBCFile*>
  sources,    \* DBCManager::sources: the known sources
  heap,       \* the DBCFile objects ever constructed, by address
  emitted,    \* the signals emitted by the call in progress or last returned
  last,       \* the call in progress or last returned
  pc          \* "idle", inside removeSignal after its emit ("removeSignal"),
              \* inside an emit loop ("emitting"), or "aborted"

vars == <<dbc_files, sources, heap, emitted, last, pc>>

NoSig == [file |-> 0, address |-> 0, name |-> ""]
\* op: the method; path: the branch it took; ret: its result (for the void
\* edits, whether the DBC file accepted the edit); the rest are the locals
\* an edit holds across its emits: id.address, the signal name, dbc_file
\* and dbc_sources
NoCall ==
  [op |-> "none", path |-> "", ret |-> TRUE, address |-> 0, sig_name |-> "", target |-> 0,
   dbc_sources |-> {}]

Pair(ss, f) == [first |-> ss, second |-> f]

Init ==
  /\ dbc_files = <<>>
  /\ sources = {}
  /\ heap = [o \in ObjIds |-> NoFile]
  /\ emitted = <<>>
  /\ last = NoCall
  /\ pc = "idle"

\* ----------------------------------------------------------------- helpers
Min(S) == CHOOSE i \in S : \A j \in S : i <= j

RECURSIVE Ascending(_)
Ascending(S) == IF S = {} THEN <<>> ELSE <<Min(S)>> \o Ascending(S \ {Min(S)})

Note(kind, source, address, sig, seen) ==
  [kind |-> kind, source |-> source, address |-> address, sig |-> sig, seen |-> seen]

\* emit DBCFileChanged(), observed with the collection as it is at that moment
DBCFileChanged(df) == Note("DBCFileChanged", 0, 0, NoSig, df)

SigRef(f, address, name) == [file |-> f, address |-> address, name |-> name]

\* faulty variant: the loop stops after the first source
FanOut_firstOnly(kind, dbc_sources, address, s) ==
  LET order == Ascending(dbc_sources)
  IN [k \in 1..(IF Len(order) > 0 THEN 1 ELSE 0) |-> Note(kind, order[k], address, s, <<>>)]

\* faulty variant: the loop starts at the second source
FanOut_skipsFirst(kind, dbc_sources, address, s) ==
  LET order == Ascending(dbc_sources)
  IN [k \in 1..(Len(order) - (IF Len(order) > 0 THEN 1 ELSE 0)) |->
        Note(kind, order[k + 1], address, s, <<>>)]

\* for (uint8_t source : dbc_sources) emit kind({source, id.address}, s)
FanOut(kind, dbc_sources, address, s) ==
  LET order == Ascending(dbc_sources)
  IN [k \in 1..Len(order) |-> Note(kind, order[k], address, s, <<>>)]

FreeIds(hp) == {o \in ObjIds : hp[o].st = "free"}
\* the address of the next allocation (0 when the model's heap is exhausted:
\* the actions that construct are then disabled)
NewId(hp) == IF FreeIds(hp) = {} THEN 0 ELSE Min(FreeIds(hp))

\* ------------------------------------------------------------- findDBCFile
None == [found |-> FALSE, first |-> {}, second |-> 0]
Some(ss, f) == [found |-> TRUE, first |-> ss, second |-> f]

\* faulty variant: the SOURCE_ALL pass runs before the pass over the specific sets
findDBCFileIn_wildcardFirst(df, srcs, source) ==
  LET hits == {i \in 1..Len(df) : contains(df[i].first, source)}
      alls == {i \in 1..Len(df) : df[i].first = SOURCE_ALL}
  IN IF alls # {} THEN Some(srcs, df[Min(alls)].second)
     ELSE IF hits # {} THEN Some(df[Min(hits)].first, df[Min(hits)].second)
     ELSE None

\* faulty variant: the SOURCE_ALL pass returns source_set instead of sources
findDBCFileIn_returnsAll(df, srcs, source) ==
  LET hits == {i \in 1..Len(df) : contains(df[i].first, source)}
      alls == {i \in 1..Len(df) : df[i].first = SOURCE_ALL}
  IN IF hits # {} THEN Some(df[Min(hits)].first, df[Min(hits)].second)
     ELSE IF alls # {} THEN Some(df[Min(alls)].first, df[Min(alls)].second)
     ELSE None

findDBCFileIn(df, srcs, source) ==
  LET hits == {i \in 1..Len(df) : contains(df[i].first, source)}
      alls == {i \in 1..Len(df) : df[i].first = SOURCE_ALL}
  IN IF hits # {} THEN Some(df[Min(hits)].first, df[Min(hits)].second)
     ELSE IF alls # {} THEN Some(srcs, df[Min(alls)].second)
     ELSE None

findDBCFile(source) == findDBCFileIn(dbc_files, sources, source)

\* -------------------------------------------------------------------- open
Outcome(df, hp, ret, em, path) ==
  [dbc_files |-> df, heap |-> hp, ret |-> ret, emitted |-> em, path |-> path]

\* the first index at which the loop of open returns
OpenHits(df, hp, s, dbc_file_name) ==
  {i \in 1..Len(df) : hp[df[i].second].filename = dbc_file_name \/ df[i].first = s}

\* auto [ss, dbc_file] = dbc_files[i] binds a copy of the pair: ss |= s
\* changes the copy, and dbc_files[i] keeps its source set
open_merge(df, hp, i, s) ==
  LET ss == df[i].first \cup s
  IN Outcome(df, hp, TRUE, <<DBCFileChanged(df)>>, "merge")

\* faulty variant: the old DBCFile is deleted before the new one is constructed
open_replace_deleteFirst(df, hp, i, s, dbc_file_name, ok) ==
  LET hp1 == [hp EXCEPT ![df[i].second] = DeletedFile]
  IN IF ~ok THEN Outcome(df, hp1, FALSE, <<>>, "replace")
     ELSE LET n == NewId(hp)
              df2 == [df EXCEPT ![i] = Pair(s, n)]
              hp2 == [hp1 EXCEPT ![n] = DBCFile_fromFile(dbc_file_name)]
          IN Outcome(df2, hp2, TRUE, <<DBCFileChanged(df2)>>, "replace")

\* faulty variant: the replaced DBCFile is never deleted
open_replace_noDelete(df, hp, i, s, dbc_file_name, ok) ==
  IF ~ok THEN Outcome(df, hp, FALSE, <<>>, "replace")
  ELSE LET n == NewId(hp)
           df2 == [df EXCEPT ![i] = Pair(s, n)]
           hp2 == [hp EXCEPT ![n] = DBCFile_fromFile(dbc_file_name)]
       IN Outcome(df2, hp2, TRUE, <<DBCFileChanged(df2)>>, "replace")

\* dbc_files[i] = {s, new DBCFile(...)}; delete dbc_file; emit
open_replace(df, hp, i, s, dbc_file_name, ok) ==
  IF ~ok THEN Outcome(df, hp, FALSE, <<>>, "replace")
  ELSE LET n == NewId(hp)
           df2 == [df EXCEPT ![i] = Pair(s, n)]
           hp2 == [hp EXCEPT ![n] = DBCFile_fromFile(dbc_file_name)]
           hp3 == [hp2 EXCEPT ![df[i].second] = DeletedFile]
       IN Outcome(df2, hp3, TRUE, <<DBCFileChanged(df2)>>, "replace")

\* faulty variant: DBCFileChanged is emitted before the push_back
open_append_emitFirst(df, hp, s, d, ok) ==
  IF ~ok THEN Outcome(df, hp, FALSE, <<>>, "append")
  ELSE LET n == NewId(hp)
           df2 == Append(df, Pair(s, n))
           hp2 == [hp EXCEPT ![n] = d]
       IN Outcome(df2, hp2, TRUE, <<DBCFileChanged(df)>>, "append")

\* dbc_files.push_back({s, new DBCFile(...)}); emit
open_append(df, hp, s, d, ok) ==
  IF ~ok THEN Outcome(df, hp, FALSE, <<>>, "append")
  ELSE LET n == NewId(hp)
           df2 == Append(df, Pair(s, n))
           hp2 == [hp EXCEPT ![n] = d]
       IN Outcome(df2, hp2, TRUE, <<DBCFileChanged(df2)>>, "append")

\* the branch open returns from
open_path(df, hp, s, dbc_file_name) ==
  LET hits == OpenHits(df, hp, s, dbc_file_name)
  IN IF hits = {} THEN "append"
     ELSE IF hp[df[Min(hits)].second].filename = dbc_file_name THEN "merge"
     ELSE "replace"

open_result(df, hp, s, dbc_file_name, ok) ==
  LET hits == OpenHits(df, hp, s, dbc_file_name)
  IN IF hits = {} THEN open_append(df, hp, s, DBCFile_fromFile(dbc_file_name), ok)
     ELSE IF hp[df[Min(hits)].second].filename = dbc_file_name
          THEN open_merge(df, hp, Min(hits), s)
          ELSE open_replace(df, hp, Min(hits), s, dbc_file_name, ok)

Apply(out, call) ==
  /\ dbc_files' = out.dbc_files
  /\ heap' = out.heap
  /\ emitted' = out.emitted
  /\ last' = [call EXCEPT !.ret = out.ret, !.path = out.path]
  /\ UNCHANGED <<sources, pc>>

\* bool DBCManager::open(SourceSet s, const QString &dbc_file_name, QString *error)
open(s, dbc_file_name, ok) ==
  /\ pc = "idle"
  /\ LET path == open_path(dbc_files, heap, s, dbc_file_name)
     IN /\ (ok /\ path # "merge") => FreeIds(heap) # {}
        /\ (ok /\ path = "append") => Len(dbc_files) + 1 \in Slots
  /\ Apply(open_result(dbc_files, heap, s, dbc_file_name, ok),
           [NoCall EXCEPT !.op = "open"])

\* bool DBCManager::open(SourceSet s, const QString &name, const QString &content, QString *error)
open_content(s, name, content, ok) ==
  /\ pc = "idle"
  /\ ok => (FreeIds(heap) # {} /\ Len(dbc_files) + 1 \in Slots)
  /\ Apply(open_append(dbc_files, heap, s, DBCFile_fromContent(name, content), ok),
           [NoCall EXCEPT !.op = "open_content"])

\* ---------------------------------------------------------------- closeAll
\* faulty variant: the loop runs while (dbc_files.size() > 1)
closeAll_result_keepsFirst(df, hp) ==
  LET owned == {df[i].second : i \in 2..Len(df)}
      hp2 == [o \in ObjIds |-> IF o \in owned THEN DeletedFile ELSE hp[o]]
      df2 == SubSeq(df, 1, IF Len(df) > 0 THEN 1 ELSE 0)
  IN Outcome(df2, hp2, TRUE, <<DBCFileChanged(df2)>>, "")

\* while (dbc_files.size()) { pop_back; delete }; emit
closeAll_result(df, hp) ==
  LET owned == {df[i].second : i \in 1..Len(df)}
      hp2 == [o \in ObjIds |-> IF o \in owned THEN DeletedFile ELSE hp[o]]
  IN Outcome(<<>>, hp2, TRUE, <<DBCFileChanged(<<>>)>>, "")

closeAll ==
  /\ pc = "idle"
  /\ Apply(closeAll_result(dbc_files, heap), [NoCall EXCEPT !.op = "closeAll"])

\* void DBCManager::updateSources(const SourceSet &s)
updateSources(s) ==
  /\ pc = "idle"
  /\ sources' = s
  /\ emitted' = <<>>
  /\ last' = [NoCall EXCEPT !.op = "updateSources"]
  /\ UNCHANGED <<dbc_files, heap, pc>>

\* ------------------------------------------------------------------- edits
EditCall(op, ret) == [NoCall EXCEPT !.op = op, !.ret = ret]

\* faulty variant: the edit returns quietly when nothing resolves
AssertFails_returns(op) ==
  /\ pc' = "idle"
  /\ emitted' = <<>>
  /\ last' = [NoCall EXCEPT !.op = op, !.path = "assert", !.ret = FALSE]
  /\ UNCHANGED <<dbc_files, sources, heap>>

\* assert(sources_dbc_file) fails: the process is aborted
AssertFails(op) ==
  /\ pc' = "aborted"
  /\ emitted' = <<>>
  /\ last' = [NoCall EXCEPT !.op = op, !.path = "assert", !.ret = FALSE]
  /\ UNCHANGED <<dbc_files, sources, heap>>

addSignal_emits(ok, dbc_sources, f, address, sig) ==
  IF ok THEN FanOut("signalAdded", dbc_sources, address, SigRef(f, address, sig))
  ELSE <<>>

\* void DBCManager::addSignal(const MessageId &id, const cabana::Signal &sig)
addSignal(source, address, sig) ==
  /\ pc = "idle"
  /\ LET r == findDBCFile(source)
     IN IF ~r.found THEN AssertFails("addSignal")
        ELSE LET ok == DBCFile_addSignal_ok(heap[r.second], address, sig)
             IN /\ heap' = [heap EXCEPT ![r.second] = DBCFile_addSignal(@, address, sig)]
                /\ emitted' = addSignal_emits(ok, r.first, r.second, address, sig)
                /\ last' = EditCall("addSignal", ok)
                /\ UNCHANGED <<dbc_files, sources, pc>>

\* faulty variant: signalUpdated is emitted once per source of the resolved set
updateSignal_emits_perSource(ok, dbc_sources, f, address, sig) ==
  IF ok THEN FanOut("signalUpdated", dbc_sources, 0, SigRef(f, address, sig)) ELSE <<>>

\* if (s != nullptr) emit signalUpdated(s)
updateSignal_emits(ok, dbc_sources, f, address, sig) ==
  IF ok THEN <<Note("signalUpdated", 0, 0, SigRef(f, address, sig), <<>>)>> ELSE <<>>

\* void DBCManager::updateSignal(const MessageId &id, const QString &sig_name, const cabana::Signal &sig)
updateSignal(source, address, sig_name, sig) ==
  /\ pc = "idle"
  /\ LET r == findDBCFile(source)
     IN IF ~r.found THEN AssertFails("updateSignal")
        ELSE LET ok == DBCFile_updateSignal_ok(heap[r.second], address, sig_name, sig)
             IN /\ heap' = [heap EXCEPT ![r.second] =
                              DBCFile_updateSignal(@, address, sig_name, sig)]
                /\ emitted' = updateSignal_emits(ok, r.first, r.second, address, sig)
                /\ last' = EditCall("updateSignal", ok)
                /\ UNCHANGED <<dbc_files, sources, pc>>

\* faulty variant: dbc_file->removeSignal runs before the emit
removeSignal_removeFirst(source, address, sig_name) ==
  /\ pc = "idle"
  /\ LET r == findDBCFile(source)
     IN IF ~r.found THEN AssertFails("removeSignal")
        ELSE LET s == DBCFile_getSignal(heap[r.second], address, sig_name)
             IN /\ heap' = [heap EXCEPT ![r.second] =
                              DBCFile_removeSignal(@, address, sig_name)]
                /\ emitted' = IF s THEN <<Note("signalRemoved", 0, 0,
                                               SigRef(r.second, address, sig_name), <<>>)>>
                              ELSE <<>>
                /\ pc' = IF s THEN "removeSignal" ELSE "idle"
                /\ last' = IF s THEN [EditCall("removeSignal", TRUE) EXCEPT
                                         !.address = address, !.sig_name = sig_name,
                                         !.target = r.second]
                           ELSE EditCall("removeSignal", FALSE)
                /\ UNCHANGED <<dbc_files, sources>>

\* void DBCManager::removeSignal, up to and including emit signalRemoved(s):
\* the observers run with the state this step leaves
removeSignal(source, address, sig_name) ==
  /\ pc = "idle"
  /\ LET r == findDBCFile(source)
     IN IF ~r.found THEN AssertFails("removeSignal")
        ELSE LET s == DBCFile_getSignal(heap[r.second], address, sig_name)
             IN /\ emitted' = IF s THEN <<Note("signalRemoved", 0, 0,
                                               SigRef(r.second, address, sig_name), <<>>)>>
                              ELSE <<>>
                /\ pc' = IF s THEN "removeSignal" ELSE "idle"
                /\ last' = IF s THEN [EditCall("removeSignal", TRUE) EXCEPT
                                         !.address = address, !.sig_name = sig_name,
                                         !.target = r.second]
                           ELSE EditCall("removeSignal", FALSE)
                /\ UNCHANGED <<dbc_files, sources, heap>>

\* void DBCManager::removeSignal, after the emit: dbc_file->removeSignal(id, sig_name)
removeSignal_remove ==
  /\ pc = "removeSignal"
  /\ heap' = [heap EXCEPT ![last.target] =
                DBCFile_removeSignal(@, last.address, last.sig_name)]
  /\ pc' = "idle"
  /\ UNCHANGED <<dbc_files, sources, emitted, last>>

\* void DBCManager::updateMsg(const MessageId &id, const QString &name, uint32_t size)
updateMsg(source, address, name, size) ==
  /\ pc = "idle"
  /\ LET r == findDBCFile(source)
     IN IF ~r.found THEN AssertFails("updateMsg")
        ELSE /\ heap' = [heap EXCEPT ![r.second] = DBCFile_updateMsg(@, address, name, size)]
             /\ emitted' = FanOut("msgUpdated", r.first, address, NoSig)
             /\ last' = EditCall("updateMsg", TRUE)
             /\ UNCHANGED <<dbc_files, sources, pc>>

\* void DBCManager::removeMsg(const MessageId &id)
removeMsg(source, address) ==
  /\ pc = "idle"
  /\ LET r == findDBCFile(source)
     IN IF ~r.found THEN AssertFails("removeMsg")
        ELSE /\ heap' = [heap EXCEPT ![r.second] = DBCFile_removeMsg(@, address)]
             /\ emitted' = FanOut("msgRemoved", r.first, address, NoSig)
             /\ last' = EditCall("removeMsg", DBCFile_removeMsg_ok(heap[r.second], address))
             /\ UNCHANGED <<dbc_files, sources, pc>>

\* ------------------------------------------- edits, one emit at a time
\* The emits are direct calls: a slot connected to a signal runs inside the
\* emit and may call back into the DBCManager before the next emit.
Kind(op) ==
  IF op = "addSignal" THEN "signalAdded"
  ELSE IF op = "updateMsg" THEN "msgUpdated" ELSE "msgRemoved"

\* the signal pointer the emits of the edit in progress carry
Carried(call) ==
  IF call.op = "addSignal" THEN SigRef(call.target, call.address, call.sig_name) ELSE NoSig

\* the edit up to its emit loop: resolution, the copy of the resolved pair
\* into dbc_sources and dbc_file, and the call of the DBC file
EditStarts(op, source, address, sig_name, ok, emits, d) ==
  /\ pc = "idle"
  /\ LET r == findDBCFile(source)
     IN IF ~r.found THEN AssertFails(op)
        ELSE /\ heap' = [heap EXCEPT ![r.second] = d[r.second]]
             /\ emitted' = <<>>
             /\ last' = [EditCall(op, ok[r.second]) EXCEPT
                           !.address = address, !.sig_name = sig_name,
                           !.target = r.second, !.dbc_sources = r.first]
             /\ pc' = IF emits[r.second] /\ r.first # {} THEN "emitting" ELSE "idle"
             /\ UNCHANGED <<dbc_files, sources>>

\* addSignal, lines 71-77
addSignal_starts(source, address, sig) ==
  EditStarts("addSignal", source, address, sig,
             [o \in ObjIds |-> DBCFile_addSignal_ok(heap[o], address, sig)],
             [o \in ObjIds |-> DBCFile_addSignal_ok(heap[o], address, sig)],
             [o \in ObjIds |-> DBCFile_addSignal(heap[o], address, sig)])

\* updateMsg, lines 110-114
updateMsg_starts(source, address, name, size) ==
  EditStarts("updateMsg", source, address, "",
             [o \in ObjIds |-> TRUE],
             [o \in ObjIds |-> TRUE],
             [o \in ObjIds |-> DBCFile_updateMsg(heap[o], address, name, size)])

\* removeMsg, lines 122-126: the emit loop runs whatever removeMsg did
removeMsg_starts(source, address) ==
  EditStarts("removeMsg", source, address, "",
             [o \in ObjIds |-> DBCFile_removeMsg_ok(heap[o], address)],
             [o \in ObjIds |-> TRUE],
             [o \in ObjIds |-> DBCFile_removeMsg(heap[o], address)])

\* faulty variant: the loop iterates the registry's sources member, not the
\* copy, when the file was resolved through SOURCE_ALL
emit_next_liveSources ==
  /\ pc = "emitting"
  /\ LET wild == \E i \in 1..Len(dbc_files) :
                   dbc_files[i].second = last.target /\ dbc_files[i].first = SOURCE_ALL
         order == Ascending(IF wild THEN sources ELSE last.dbc_sources)
         k == Len(emitted) + 1
     IN IF k > Len(order) THEN emitted' = emitted /\ pc' = "idle"
        ELSE /\ emitted' = Append(emitted,
                              Note(Kind(last.op), order[k], last.address, Carried(last), <<>>))
             /\ pc' = IF k = Len(order) THEN "idle" ELSE "emitting"
  /\ UNCHANGED <<dbc_files, sources, heap, last>>

\* one iteration of for (uint8_t source : dbc_sources) emit ...
emit_next ==
  /\ pc = "emitting"
  /\ LET order == Ascending(last.dbc_sources)
         k == Len(emitted) + 1
     IN /\ emitted' = Append(emitted,
                              Note(Kind(last.op), order[k], last.address, Carried(last), <<>>))
        /\ pc' = IF k = Len(order) THEN "idle" ELSE "emitting"
  /\ UNCHANGED <<dbc_files, sources, heap, last>>

\* the calls a slot makes during an emit that is not the loop's last; their
\* own signals are not those of the edit in progress, whose locals they
\* leave alone
Reenter(df, hp, srcs) ==
  /\ pc = "emitting"
  /\ Len(emitted) >= 1
  /\ dbc_files' = df
  /\ heap' = hp
  /\ sources' = srcs
  /\ UNCHANGED <<emitted, last, pc>>

slot_open(s, dbc_file_name, ok) ==
  /\ LET path == open_path(dbc_files, heap, s, dbc_file_name)
     IN /\ (ok /\ path # "merge") => FreeIds(heap) # {}
        /\ (ok /\ path = "append") => Len(dbc_files) + 1 \in Slots
  /\ LET out == open_result(dbc_files, heap, s, dbc_file_name, ok)
     IN Reenter(out.dbc_files, out.heap, sources)

slot_open_content(s, name, content, ok) ==
  /\ ok => (FreeIds(heap) # {} /\ Len(dbc_files) + 1 \in Slots)
  /\ LET out == open_append(dbc_files, heap, s, DBCFile_fromContent(name, content), ok)
     IN Reenter(out.dbc_files, out.heap, sources)

slot_closeAll ==
  LET out == closeAll_result(dbc_files, heap)
  IN Reenter(out.dbc_files, out.heap, sources)

slot_updateSources(s) == Reenter(dbc_files, heap, s)

\* a nested edit asserts like any other
SlotEdit(source, d) ==
  LET r == findDBCFile(source)
  IN IF r.found THEN Reenter(dbc_files, [heap EXCEPT ![r.second] = d[r.second]], sources)
     ELSE /\ pc = "emitting"
          /\ Len(emitted) >= 1
          /\ pc' = "aborted"
          /\ UNCHANGED <<dbc_files, sources, heap, emitted, last>>

slot_removeSignal(source, address, sig_name) ==
  SlotEdit(source, [o \in ObjIds |-> DBCFile_removeSignal(heap[o], address, sig_name)])

slot_removeMsg(source, address) ==
  SlotEdit(source, [o \in ObjIds |-> DBCFile_removeMsg(heap[o], address)])

\* ----------------------------------------------------------------- queries
Key(source, address) == [source |-> source, address |-> address]

\* faulty variant: one entry per source of the resolved set
getMessagesIn_everySource(df, srcs, hp, source) ==
  LET r == findDBCFileIn(df, srcs, source)
  IN IF ~r.found THEN [k \in {} |-> NoMsg]
     ELSE LET msgs == hp[r.second].msgs
          IN [k \in {Key(x, a) : x \in r.first \cup {source},
                                 a \in {b \in Addresses : msgs[b].present}}
                |-> msgs[k.address]]

\* std::map<MessageId, cabana::Msg> DBCManager::getMessages(uint8_t source)
getMessagesIn(df, srcs, hp, source) ==
  LET r == findDBCFileIn(df, srcs, source)
  IN IF ~r.found THEN [k \in {} |-> NoMsg]
     ELSE LET msgs == hp[r.second].msgs
          IN [k \in {Key(source, a) : a \in {b \in Addresses : msgs[b].present}}
                |-> msgs[k.address]]

getMessages(source) ==
  /\ pc = "idle"
  /\ emitted' = <<>>
  /\ last' = [NoCall EXCEPT !.op = "getMessages"]
  /\ UNCHANGED <<dbc_files, sources, heap, pc>>

\* int DBCManager::dbcCount() const
dbcCount == Len(dbc_files)

\* ----------------------------------------------------------- specification
Next ==
  \/ \E s \in SourceSets, f \in FileNames, ok \in BOOLEAN : open(s, f, ok)
  \/ \E s \in SourceSets, c \in Contents, ok \in BOOLEAN : open_content(s, "untitled", c, ok)
  \/ closeAll
  \/ \E s \in SourceSets : updateSources(s)
  \/ \E c \in Sources, a \in Addresses, n \in SigNames : addSignal(c, a, n)
  \/ \E c \in Sources, a \in Addresses, o \in SigNames, n \in SigNames :
       updateSignal(c, a, o, n)
  \/ \E c \in Sources, a \in Addresses, n \in SigNames : removeSignal(c, a, n)
  \/ removeSignal_remove
  \/ \E c \in Sources, a \in Addresses, n \in MsgNames, z \in MsgSizes :
       updateMsg(c, a, n, z)
  \/ \E c \in Sources, a \in Addresses : removeMsg(c, a)
  \/ \E c \in Sources : getMessages(c)

Spec == Init /\ [][Next]_vars

\* the registry calls and the fan-out edits, with slots that call back
\* during the emits
NextReentrant ==
  \/ \E s \in SourceSets, f \in FileNames, ok \in BOOLEAN : open(s, f, ok)
  \/ \E s \in SourceSets, c \in Contents, ok \in BOOLEAN : open_content(s, "untitled", c, ok)
  \/ \E s \in SourceSets : updateSources(s)
  \/ \E c \in Sources, a \in Addresses, n \in SigNames : addSignal_starts(c, a, n)
  \/ \E c \in Sources, a \in Addresses, n \in MsgNames, z \in MsgSizes :
       updateMsg_starts(c, a, n, z)
  \/ \E c \in Sources, a \in Addresses : removeMsg_starts(c, a)
  \/ emit_next
  \/ \E s \in SourceSets, f \in FileNames, ok \in BOOLEAN : slot_open(s, f, ok)
  \/ \E s \in SourceSets, c \in Contents, ok \in BOOLEAN :
       slot_open_content(s, "untitled", c, ok)
  \/ slot_closeAll
  \/ \E s \in SourceSets : slot_updateSources(s)
  \/ \E c \in Sources, a \in Addresses, n \in SigNames : slot_removeSignal(c, a, n)
  \/ \E c \in Sources, a \in Addresses : slot_removeMsg(c, a)

SpecReentrant == Init /\ [][NextReentrant]_vars

TypeOK ==
  /\ pc \in {"idle", "removeSignal", "emitting", "aborted"}
  /\ sources \in SourceSets
  /\ \A i \in 1..Len(dbc_files) : dbc_files[i].second \in ObjIds

\* ------------------------------------------------------------------ claims
Indices(df) == 1..Len(df)
LoadedFrom(df, hp, f) == {i \in Indices(df) : hp[df[i].second].filename = f}
Kinds(em) == {em[k].kind : k \in 1..Len(em)}
\* the messages of a getMessages result without the source of their keys
Unkeyed(m) == {<<k.address, m[k]>> : k \in DOMAIN m}

\* C1: open(S, src) on a registry that holds an association loaded from src
\* replaces that association's source set by its union with S and keeps the
\* number of associations (from empty: open({0}, src), open({1}, src) leaves
\* one association, with the set {0,1}).
C1_MergeUnitesSources ==
  [][\A s \in SourceSets \ {SOURCE_ALL}, f \in FileNames :
       (/\ last'.op = "open"
        /\ LoadedFrom(dbc_files, heap, f) # {}
        /\ dbc_files[Min(LoadedFrom(dbc_files, heap, f))].first # SOURCE_ALL
        /\ open(s, f, TRUE))
         => LET i == Min(LoadedFrom(dbc_files, heap, f))
            IN /\ Len(dbc_files') = Len(dbc_files)
               /\ dbc_files'[i].second = dbc_files[i].second
               /\ dbc_files'[i].first = dbc_files[i].first \cup s]_vars

\* C2: after open(T, src) and then open(S, src) with the same source, every
\* source of S gets from getMessages the messages a source of T gets, keyed
\* by itself.
C2_SharedMessages ==
  [][\A s \in SourceSets \ {SOURCE_ALL}, f \in FileNames :
       (/\ last'.op = "open"
        /\ Len(dbc_files) = 1
        /\ dbc_files[1].first # SOURCE_ALL
        /\ heap[dbc_files[1].second].filename = f
        /\ open(s, f, TRUE))
         => \A c \in s, c0 \in dbc_files[1].first :
              LET m == getMessagesIn(dbc_files', sources', heap', c)
                  m0 == getMessagesIn(dbc_files', sources', heap', c0)
              IN /\ Unkeyed(m) = Unkeyed(m0)
                 /\ \A k \in DOMAIN m : k.source = c]_vars

\* C3: when an association with a source set containing c and an association
\* with SOURCE_ALL are both held, findDBCFile(c) returns the file and the set
\* of an association containing c, whichever was inserted first.
C3_SpecificShadowsWildcard ==
  \A c \in Sources :
    LET specific == {i \in Indices(dbc_files) : contains(dbc_files[i].first, c)}
        wildcard == {i \in Indices(dbc_files) : dbc_files[i].first = SOURCE_ALL}
        r == findDBCFile(c)
    IN (specific # {} /\ wildcard # {})
         => /\ r.found
            /\ \E i \in specific :
                 r.first = dbc_files[i].first /\ r.second = dbc_files[i].second
            /\ \A i \in wildcard : r.second # dbc_files[i].second

C3_Witness ==
  \E c \in Sources, i, j \in Indices(dbc_files) :
    i < j /\ dbc_files[i].first = SOURCE_ALL /\ contains(dbc_files[j].first, c)

\* C4: when the only association has SOURCE_ALL, findDBCFile(c) returns, for
\* every source c, its file paired with the known sources (not SOURCE_ALL),
\* also for c outside the known sources.
C4_WildcardFallback ==
  (Len(dbc_files) = 1 /\ dbc_files[1].first = SOURCE_ALL)
    => \A c \in Sources : findDBCFile(c) = Some(sources, dbc_files[1].second)

C4_Witness ==
  /\ Len(dbc_files) = 1
  /\ dbc_files[1].first = SOURCE_ALL
  /\ last.op = "updateSources"
  /\ sources # SOURCE_ALL
  /\ \E c \in Sources : c \notin sources

\* C5: an open whose DBCFile construction throws (replace path, append path,
\* content overload) returns false, leaves dbc_files and every DBCFile as
\* they were (none deleted, every source resolves and lists as before) and
\* emits nothing.
C5_FailedOpenChangesNothing ==
  [][\A s \in SourceSets :
       ((\E f \in FileNames :
           last'.op = "open" /\ last'.path # "merge" /\ open(s, f, FALSE))
        \/ (\E c \in Contents :
              last'.op = "open_content" /\ open_content(s, "untitled", c, FALSE)))
         => /\ last'.ret = FALSE
            /\ dbc_files' = dbc_files
            /\ heap' = heap
            /\ emitted' = <<>>
            /\ \A c \in Sources :
                 /\ findDBCFileIn(dbc_files', sources', c) = findDBCFile(c)
                 /\ getMessagesIn(dbc_files', sources', heap', c)
                      = getMessagesIn(dbc_files, sources, heap, c)]_vars

C5_Witness ==
  /\ last.op = "open"
  /\ last.path = "replace"
  /\ last.ret = FALSE
  /\ Len(dbc_files) >= 1
  /\ \A i \in Indices(dbc_files) : heap[dbc_files[i].second].st = "live"

\* exactly one note of the kind per source of S, keyed (s, address), carrying sig
FansOutOver(em, kind, S, address, sig) ==
  /\ Len(em) = Cardinality(S)
  /\ \A k \in 1..Len(em) :
       em[k].kind = kind /\ em[k].source \in S /\ em[k].address = address /\ em[k].sig = sig
  /\ \A x \in S : Cardinality({k \in 1..Len(em) : em[k].source = x}) = 1

\* C6: an addSignal, updateMsg or removeMsg that succeeds on (c, a) with the
\* resolved source set S emits exactly one signal of its kind per source s
\* of S, keyed (s, a) (addSignal: carrying the added signal), and no other.
C6_FanOut ==
  [][\A c \in Sources, a \in Addresses :
       LET r == findDBCFile(c)
       IN /\ \A n \in SigNames :
               (last'.op = "addSignal" /\ last'.ret /\ addSignal(c, a, n))
                 => FansOutOver(emitted', "signalAdded", r.first, a, SigRef(r.second, a, n))
          /\ \A n \in MsgNames, z \in MsgSizes :
               (last'.op = "updateMsg" /\ last'.ret /\ updateMsg(c, a, n, z))
                 => FansOutOver(emitted', "msgUpdated", r.first, a, NoSig)
          /\ (last'.op = "removeMsg" /\ last'.ret /\ removeMsg(c, a))
               => FansOutOver(emitted', "msgRemoved", r.first, a, NoSig)]_vars

C6_Witness ==
  /\ last.op = "addSignal"
  /\ last.ret
  /\ Len(emitted) = 2
  /\ emitted[1].source # emitted[2].source

\* C7: an updateSignal that succeeds emits exactly one signalUpdated, carrying
\* the updated signal, whatever the size of the resolved source set.
C7_SingleUpdate ==
  [][\A c \in Sources, a \in Addresses, o \in SigNames, n \in SigNames :
       (last'.op = "updateSignal" /\ last'.ret /\ updateSignal(c, a, o, n))
         => LET r == findDBCFile(c)
            IN /\ emitted' = <<Note("signalUpdated", 0, 0, SigRef(r.second, a, n), <<>>)>>
               /\ DBCFile_getSignal(heap'[r.second], a, n)]_vars

C7_Witness ==
  /\ last.op = "updateSignal"
  /\ last.ret
  /\ Len(emitted) = 1
  /\ \E i \in Indices(dbc_files) :
       /\ dbc_files[i].second = emitted[1].sig.file
       /\ Cardinality(dbc_files[i].first) = 2

\* C8: removeSignal on an existing signal delivers its one signalRemoved
\* while the signal is still in its DBC file, and removes the signal only
\* after that delivery.
C8_NotifyBeforeRemove ==
  [][/\ \A c \in Sources, a \in Addresses, n \in SigNames :
          (last'.op = "removeSignal" /\ last'.ret /\ removeSignal(c, a, n))
            => LET r == findDBCFile(c)
               IN /\ emitted' = <<Note("signalRemoved", 0, 0, SigRef(r.second, a, n), <<>>)>>
                  /\ DBCFile_getSignal(heap'[r.second], a, n)
                  /\ pc' = "removeSignal"
     /\ (pc = "removeSignal" /\ removeSignal_remove)
          => /\ DBCFile_getSignal(heap[last.target], last.address, last.sig_name)
             /\ ~DBCFile_getSignal(heap'[last.target], last.address, last.sig_name)
             /\ emitted' = emitted]_vars

C8_Witness ==
  /\ last.op = "removeSignal"
  /\ last.ret
  /\ pc = "idle"
  /\ Kinds(emitted) = {"signalRemoved"}
  /\ ~DBCFile_getSignal(heap[last.target], last.address, last.sig_name)

\* C9: closeAll leaves no association, every DBCFile that was held deleted,
\* and no source resolving; sources resolve again only once an open succeeds.
C9_Teardown ==
  [][/\ (last'.op = "closeAll" /\ closeAll)
          => /\ Len(dbc_files') = 0
             /\ \A i \in Indices(dbc_files) : heap'[dbc_files[i].second].st = "deleted"
             /\ \A c \in Sources : ~findDBCFileIn(dbc_files', sources', c).found
     /\ ((\A c \in Sources : ~findDBCFile(c).found)
         /\ (\E c \in Sources : findDBCFileIn(dbc_files', sources', c).found))
          => (last'.op \in {"open", "open_content"} /\ last'.ret)]_vars

C9_Witness ==
  /\ last.op = "closeAll"
  /\ Cardinality({o \in ObjIds : heap[o].st = "deleted"}) = 2
  /\ sources # {}

\* C10: a successful open (merge, replace, append), a successful open from
\* content and closeAll each emit exactly one DBCFileChanged, emitted when
\* dbc_files has its final value; failed opens, edits, getMessages and
\* updateSources emit none.
C10_OneDBCFileChanged ==
  IF (last.op \in {"open", "open_content"} /\ last.ret) \/ last.op = "closeAll"
  THEN emitted = <<DBCFileChanged(dbc_files)>>
  ELSE "DBCFileChanged" \notin Kinds(emitted)

C10_Witness ==
  /\ last.op = "open"
  /\ last.path = "replace"
  /\ last.ret
  /\ emitted = <<DBCFileChanged(dbc_files)>>

\* C11: an edit the DBC file rejects (addSignal of a taken name or on a
\* missing message, updateSignal or removeSignal of a missing signal,
\* removeMsg of a missing message) emits nothing and changes nothing.
C11_RejectedEditsSilent ==
  [][(/\ last'.op \in {"addSignal", "updateSignal", "removeSignal", "updateMsg", "removeMsg"}
      /\ last'.path # "assert"
      /\ ~last'.ret)
       => /\ emitted' = <<>>
          /\ heap' = heap
          /\ dbc_files' = dbc_files
          /\ sources' = sources]_vars

Edits == {"addSignal", "updateSignal", "removeSignal", "updateMsg", "removeMsg"}

\* C12: an edit whose source resolves to no association (no set contains it
\* and there is no SOURCE_ALL association) fails its assertion: the call
\* does not return, emits nothing and changes no DBC file; nothing runs
\* after it.
C12_UnresolvedEditAborts ==
  [][/\ \A c \in Sources, a \in Addresses :
          (/\ pc = "idle"
           /\ ~findDBCFile(c).found
           /\ last'.op \in Edits
           /\ \/ \E n \in SigNames : addSignal(c, a, n) \/ removeSignal(c, a, n)
              \/ \E o \in SigNames, n \in SigNames : updateSignal(c, a, o, n)
              \/ \E n \in MsgNames, z \in MsgSizes : updateMsg(c, a, n, z)
              \/ removeMsg(c, a))
            => /\ pc' = "aborted"
               /\ emitted' = <<>>
               /\ heap' = heap
               /\ dbc_files' = dbc_files
     /\ pc # "aborted"]_vars

C12_Witness ==
  /\ pc = "aborted"
  /\ last.op = "removeMsg"
  /\ Len(dbc_files) = 1
  /\ \E c \in Sources : ~findDBCFile(c).found

\* C13: getMessages(source) is empty when the source resolves to nothing,
\* and no error state is reached; otherwise it holds exactly one entry per
\* message of the resolved DBC file, keyed {source, address} with the
\* queried source, mapped to that message.
C13_GetMessages ==
  /\ \A c \in Sources :
       LET r == findDBCFile(c)
           ret == getMessagesIn(dbc_files, sources, heap, c)
       IN IF ~r.found THEN DOMAIN ret = {}
          ELSE /\ \A k \in DOMAIN ret :
                    /\ k.source = c
                    /\ heap[r.second].msgs[k.address].present
                    /\ ret[k] = heap[r.second].msgs[k.address]
               /\ \A a \in Addresses :
                    heap[r.second].msgs[a].present => Key(c, a) \in DOMAIN ret
  /\ last.op = "getMessages" => pc = "idle"

C13_Witness ==
  /\ last.op = "getMessages"
  /\ \E c \in Sources : ~findDBCFile(c).found
  /\ \E c \in Sources :
       /\ findDBCFile(c).found
       /\ DOMAIN getMessagesIn(dbc_files, sources, heap, c) = {Key(c, 0)}

\* C14: between calls, no two associations of dbc_files have equal source
\* sets.
C14_UniqueSourceSets ==
  pc = "idle" =>
    \A i, j \in Indices(dbc_files) :
      dbc_files[i].first = dbc_files[j].first => i = j

\* C15: open(S, src) on a registry in which some association was loaded
\* from src merges (constructs nothing, deletes nothing, keeps the number of
\* associations), also when an earlier association has the set S; so no two
\* associations are loaded from the same file.
C15_MergeBeforeReplace ==
  [][\A s \in SourceSets, f \in FileNames, ok \in BOOLEAN :
       (/\ last'.op = "open"
        /\ LoadedFrom(dbc_files, heap, f) # {}
        /\ open(s, f, ok))
         => /\ last'.path = "merge"
            /\ last'.ret
            /\ heap' = heap
            /\ Len(dbc_files') = Len(dbc_files)
            /\ \A i, j \in Indices(dbc_files') :
                 (/\ heap'[dbc_files'[i].second].filename # ""
                  /\ heap'[dbc_files'[i].second].filename
                       = heap'[dbc_files'[j].second].filename) => i = j]_vars

Holders(o) == {i \in Indices(dbc_files) : dbc_files[i].second = o}

\* C18: every association holds a DBCFile that has not been deleted, no
\* DBCFile is held by two associations, and every DBCFile ever constructed
\* is held by exactly one association or has been deleted.
C18_ExclusiveOwnership ==
  /\ \A i \in Indices(dbc_files) :
       dbc_files[i].second \in ObjIds /\ heap[dbc_files[i].second].st = "live"
  /\ \A o \in ObjIds :
       /\ Cardinality(Holders(o)) <= 1
       /\ heap[o].st = "live" => Cardinality(Holders(o)) = 1
       /\ heap[o].st \in {"free", "deleted"} => Holders(o) = {}

C18_Witness ==
  /\ last.op = "open"
  /\ last.path = "replace"
  /\ last.ret
  /\ \E o \in ObjIds : heap[o].st = "deleted"
  /\ \E o \in ObjIds : heap[o].st = "live"

\* C19: after open(S, src), or open(S, name, content), returns true with S
\* other than SOURCE_ALL, every source of S resolves to a DBCFile loaded
\* from src (from that content: the one the call constructed).
C19_OpenTakesEffect ==
  [][\A s \in SourceSets \ {SOURCE_ALL} :
       /\ \A f \in FileNames :
            (last'.op = "open" /\ last'.ret /\ open(s, f, TRUE))
              => \A c \in s :
                   LET r == findDBCFileIn(dbc_files', sources', c)
                   IN r.found /\ heap'[r.second].filename = f
       /\ \A d \in Contents :
            (last'.op = "open_content" /\ last'.ret /\ open_content(s, "untitled", d, TRUE))
              => \A c \in s :
                   LET r == findDBCFileIn(dbc_files', sources', c)
                   IN r.found /\ r.second = NewId(heap)]_vars

\* the accepted fan-out edits on the key {c, a}
FanOutEdit(c, a) ==
  /\ last'.op \in {"addSignal", "updateMsg", "removeMsg"}
  /\ last'.ret
  /\ \/ \E n \in SigNames : addSignal(c, a, n)
     \/ \E n \in MsgNames, z \in MsgSizes : updateMsg(c, a, n, z)
     \/ removeMsg(c, a)

HasKey(em, c, a) ==
  \E k \in 1..Len(em) :
    em[k].kind \in {"signalAdded", "msgUpdated", "msgRemoved"}
      /\ em[k].source = c /\ em[k].address = a

\* C20 as stated: an addSignal, updateMsg or removeMsg that succeeds on
\* {c, a} emits a signal with the key {c, a}, also when c resolved through
\* the SOURCE_ALL association and is not among the known sources.
C20_OriginNotified ==
  [][\A c \in Sources, a \in Addresses :
       FanOutEdit(c, a) => HasKey(emitted', c, a)]_vars

\* C20 as amended: the edit emits a signal with the key {c, a} exactly when
\* c is in the resolved set (a set containing c, or the known sources when
\* c resolved through SOURCE_ALL).
C20_OriginNotifiedIfKnown ==
  [][\A c \in Sources, a \in Addresses :
       FanOutEdit(c, a) => (HasKey(emitted', c, a) <=> c \in findDBCFile(c).first)]_vars

C20_Witness ==
  /\ last.op = "addSignal"
  /\ last.ret
  /\ Len(dbc_files) = 1
  /\ dbc_files[1].first = SOURCE_ALL
  /\ Cardinality(sources) = 1
  /\ Len(emitted) = 1
  /\ emitted[1].source \in sources

FanOutOps == {"addSignal", "updateMsg", "removeMsg"}

\* the edit in progress starts on source c
Starts(c) ==
  \/ \E a \in Addresses, n \in SigNames : addSignal_starts(c, a, n)
  \/ \E a \in Addresses, n \in MsgNames, z \in MsgSizes : updateMsg_starts(c, a, n, z)
  \/ \E a \in Addresses : removeMsg_starts(c, a)

\* the signals the edit in progress emits when its loop runs to the end
Owed(call) == FanOut(Kind(call.op), call.dbc_sources, call.address, Carried(call))

\* C16: the targets of an addSignal, updateMsg or removeMsg fan-out are the
\* set resolved before the first emit; whatever a slot calls during the
\* emits (open, the content open, closeAll, updateSources), the edit emits,
\* in order, one signal per source of that set and no other, and returns
\* when it has emitted them all.
C16_FanOutSnapshot ==
  [][/\ \A c \in Sources :
          (pc = "idle" /\ pc' = "emitting" /\ Starts(c))
            => last'.dbc_sources = findDBCFile(c).first
     /\ pc = "emitting" =>
          /\ last' = last
          /\ Len(emitted') <= Len(Owed(last))
          /\ emitted' = SubSeq(Owed(last), 1, Len(emitted'))
          /\ pc' = "idle" => emitted' = Owed(last)]_vars

\* an edit has returned after two emits, and a slot emptied the registry
\* and changed the known sources in between
C16_Witness ==
  /\ pc = "idle"
  /\ last.op \in FanOutOps
  /\ Len(emitted) = 2
  /\ emitted = Owed(last)
  /\ dbc_files = <<>>
  /\ sources # last.dbc_sources

\* the signal is in a live DBCFile that the registry holds
SignalOwned(df, hp, s) ==
  /\ s # NoSig
  /\ \E i \in Indices(df) : df[i].second = s.file
  /\ hp[s.file].st = "live"
  /\ DBCFile_getSignal(hp[s.file], s.address, s.name)

\* C17: every signal pointer an emit carries is, at that emit, a signal of
\* a DBCFile the registry holds, also when a slot of an earlier emit of the
\* same loop called closeAll, a replacing open, removeSignal or removeMsg.
C17_PayloadValid ==
  [][(Len(emitted') > Len(emitted) /\ emitted'[Len(emitted')].sig # NoSig)
       => SignalOwned(dbc_files', heap', emitted'[Len(emitted')].sig)]_vars

====
